---------------------------- MODULE Spec2Model ----------------------------
(***************************************************************************)
(* Huffman byte-stream codec of compress.py: frequency count, Huffman tree *)
(* construction over a priority queue, prefix table derivation, container  *)
(* assembly, and the decoder (container parsing, prefix trie, bit walk).   *)
(*                                                                         *)
(* Representation of the Python values:                                    *)
(*   bytes / tuple[int]   a sequence of numbers                            *)
(*   dict                 a sequence of <<key, value>> in insertion order  *)
(*   int (a frequency)    <<hi, lo>>, two digits in base 2^30, so that the *)
(*                        sums of Fibonacci-like counts stay exact         *)
(*   heap entry           <<<<freq, i>>, val>> for a symbol,               *)
(*                        <<<<freq, i>>, l, r>> for a merged node          *)
(*   HuffmanTree          <<val>> (leaf) or <<l, r>> (node): entry[1:]     *)
(*   PrefixTree           the set of <<address, val>> of its ints          *)
(***************************************************************************)
EXTENDS Integers, Sequences, FiniteSets, TLC

(***************************************************************************)
(* Bounds of the explored inputs.                                          *)
(***************************************************************************)
\* longest input buffer of Spec
MaxLen == 5
\* most symbols, and largest count, of a frequency map of SpecFreq
MaxSyms == 4
MaxFreq == 3
\* longest input buffer whose container SpecDec truncates
MaxDecLen == 3
\* symbols of the longest Fibonacci frequency map of SpecWide
MaxWide == 67

\* byte values the explored buffers are drawn from
Alphabet == <<97, 98, 0, 255>>

(***************************************************************************)
(* Program constants.                                                      *)
(***************************************************************************)
\* bits of a serialized path: (0,) * (64 - len(prefix))
PathBits == 64
\* bytes of a table record read back by decompress: batched(prefix_bytes, 10)
RecordLen == 10
\* bytes of one header field: to_bytes(8), s[:8], s[8:16]
FieldLen == 8

(***************************************************************************)
(* Python ints as two base-2^30 digits.                                    *)
(***************************************************************************)
Base == 2^30

PyInt(n) == <<n \div Base, n % Base>>

IntAdd(a, b) ==
  LET lo == a[2] + b[2]
  IN  <<a[1] + b[1] + (lo \div Base), lo % Base>>

IntLess(a, b) == a[1] < b[1] \/ (a[1] = b[1] /\ a[2] < b[2])

IntLeq(a, b) == a = b \/ IntLess(a, b)

Min(a, b) == IF a <= b THEN a ELSE b

(***************************************************************************)
(* Python slices and dicts.                                                *)
(***************************************************************************)
\* seq[a:b] with 0 <= a: the slice is clamped to the sequence, never an error
PySlice(seq, a, b) == SubSeq(seq, a + 1, Min(b, Len(seq)))

\* seq[a:]
PySliceFrom(seq, a) == SubSeq(seq, a + 1, Len(seq))

DictHas(d, k) == \E j \in 1..Len(d) : d[j][1] = k

\* d[k]
DictGet(d, k) == d[CHOOSE j \in 1..Len(d) : d[j][1] = k][2]

\* d[k] = v: an existing key keeps its position, a new key goes last
DictSet(d, k, v) ==
  IF DictHas(d, k)
  THEN [j \in 1..Len(d) |-> IF d[j][1] = k THEN <<k, v>> ELSE d[j]]
  ELSE Append(d, <<k, v>>)

(***************************************************************************)
(* BitVector utilities.                                                    *)
(***************************************************************************)
\* byte_to_bits[i]: the k-th element of itertools.product((0, 1), repeat=8)
byte_to_bits(i) == [k \in 1..8 |-> (i \div (2^(8 - k))) % 2]

\* bits_to_byte[b] for an 8-tuple b
bits_to_byte(b) ==
  b[1] * 128 + b[2] * 64 + b[3] * 32 + b[4] * 16 + b[5] * 8 + b[6] * 4 + b[7] * 2 + b[8]

Zeros(n) == [k \in 1..n |-> 0]

\* (0,) * n is empty for n <= 0
ZeroPad(n) == IF n > 0 THEN Zeros(n) ELSE <<>>

bits_to_bytes(bits) ==
  LET n == (Len(bits) + 7) \div 8
      batch(j) == SubSeq(bits, 8 * (j - 1) + 1, Min(8 * j, Len(bits)))
  IN  [j \in 1..n |-> bits_to_byte(batch(j) \o ZeroPad(8 - Len(batch(j))))]

RECURSIVE bytes_to_bits(_)
bytes_to_bits(bs) ==
  IF Len(bs) = 0 THEN <<>> ELSE byte_to_bits(Head(bs)) \o bytes_to_bits(Tail(bs))

\* n.to_bytes(length): big-endian
RECURSIVE to_bytes(_, _)
to_bytes(n, length) ==
  IF length = 0 THEN <<>> ELSE Append(to_bytes(n \div 256, length - 1), n % 256)

\* int.from_bytes(bs): big-endian, 0 for the empty slice
RECURSIVE from_bytes(_)
from_bytes(bs) ==
  IF Len(bs) = 0 THEN 0
  ELSE from_bytes(SubSeq(bs, 1, Len(bs) - 1)) * 256 + bs[Len(bs)]


(***************************************************************************)
(* Frequency analyzer: collections.Counter(s), keys in first-occurrence    *)
(* order, values as Python ints.                                           *)
(***************************************************************************)
RECURSIVE Counter(_)
Counter(s) ==
  IF Len(s) = 0 THEN <<>>
  ELSE LET d == Counter(SubSeq(s, 1, Len(s) - 1))
           x == s[Len(s)]
       IN  IF DictHas(d, x) THEN DictSet(d, x, IntAdd(DictGet(d, x), PyInt(1)))
           ELSE DictSet(d, x, PyInt(1))

\* mutant of too_few_symbols: only the empty map is rejected
too_few_symbols_off_by_one(freqs) == Len(freqs) < 1

\* len(freqs) < 2
too_few_symbols(freqs) == Len(freqs) < 2

(***************************************************************************)
(* Huffman tree builder.                                                   *)
(***************************************************************************)
\* the order of two (freq, i) tuples
KeyLess(a, b) == IntLess(a[1], b[1]) \/ (a[1] = b[1] /\ a[2] < b[2])

\* mutant of merge: the children are swapped on equal frequencies too
merge_strict(l, r) ==
  LET lf == l[1][1]
      li == l[1][2]
      lt == Tail(l)
      rf == r[1][1]
      ri == r[1][2]
      rt == Tail(r)
      priority == <<IntAdd(lf, rf), Min(li, ri)>>
  IN  IF IntLess(lf, rf) THEN <<priority, lt, rt>> ELSE <<priority, rt, lt>>

merge(l, r) ==
  LET lf == l[1][1]
      li == l[1][2]
      lt == Tail(l)
      rf == r[1][1]
      ri == r[1][2]
      rt == Tail(r)
      priority == <<IntAdd(lf, rf), Min(li, ri)>>
  IN  IF IntLeq(lf, rf) THEN <<priority, lt, rt>> ELSE <<priority, rt, lt>>

\* mutant of InitPQ: the tie-break index is left out of the key
InitPQ_no_index(freqs) == [j \in 1..Len(freqs) |-> <<<<freqs[j][2], 0>>, freqs[j][1]>>]

\* [((freq, i), val) for i, (val, freq) in enumerate(freqs.items())]
InitPQ(freqs) == [j \in 1..Len(freqs) |-> <<<<freqs[j][2], j - 1>>, freqs[j][1]>>]

(***************************************************************************)
(* heapq keeps the list a heap: the smallest entry, by Python's tuple      *)
(* order, is the one heappop returns.  The list is held sorted here (a     *)
(* sorted list is a heap).  Entries are compared by their (freq, i) key;   *)
(* Python goes on to the payload only when two keys are equal.             *)
(***************************************************************************)
heappush(pq, n) ==
  LET before == {j \in 1..Len(pq) : ~KeyLess(n[1], pq[j][1])}
      k == Cardinality(before)
  IN  SubSeq(pq, 1, k) \o <<n>> \o SubSeq(pq, k + 1, Len(pq))

\* heapify: the entries in key order, equal keys in list order
heapify(list) ==
  LET rank(j) == Cardinality({k \in 1..Len(list) :
                                \/ KeyLess(list[k][1], list[j][1])
                                \/ (list[k][1] = list[j][1] /\ k < j)})
  IN  [p \in 1..Len(list) |-> list[CHOOSE j \in 1..Len(list) : rank(j) = p - 1]]

\* mutant of heappop: the largest entry is removed
heappop_largest(pq) == <<pq[Len(pq)], SubSeq(pq, 1, Len(pq) - 1)>>

\* heappop: <<the smallest entry, the heap without it>>
heappop(pq) == <<Head(pq), Tail(pq)>>

\* one iteration of `while len(pq) > 1`: <<the heap after it, l, r, n>>
MergeOnce(pq) ==
  LET p1 == heappop(pq)
      l == p1[1]
      p2 == heappop(p1[2])
      r == p2[1]
      n == merge(l, r)
  IN  <<heappush(p2[2], n), l, r, n>>

RECURSIVE MergeLoop(_)
MergeLoop(pq) == IF Len(pq) > 1 THEN MergeLoop(MergeOnce(pq)[1]) ELSE pq

\* root = pq[0][1:]
RootOf(pq) == Tail(pq[1])

build_huffman_tree(freqs) == RootOf(MergeLoop(heapify(InitPQ(freqs))))

(***************************************************************************)
(* Prefix table derivation: depth-first, the left edge is bit 0.           *)
(***************************************************************************)
\* mutant of visit: both edges append bit 0
RECURSIVE visit_same_bit(_, _, _)
visit_same_bit(d, node, path) ==
  IF Len(node) = 1 THEN DictSet(d, node[1], path)
  ELSE LET dl == visit_same_bit(d, node[1], Append(path, 0))
       IN  IF Len(dl) > 0 THEN visit_same_bit(dl, node[2], Append(path, 0)) ELSE dl

RECURSIVE visit(_, _, _)
visit(d, node, path) ==
  IF Len(node) = 1 THEN DictSet(d, node[1], path)
  ELSE LET dl == visit(d, node[1], Append(path, 0))
       IN  \* the first call has returned before the second is made
           IF Len(dl) > 0 THEN visit(dl, node[2], Append(path, 1)) ELSE dl

build_table_from_huffman(root) == visit(<<>>, root, <<>>)

build_optimal_prefix_table(freqs) == build_table_from_huffman(build_huffman_tree(freqs))

(***************************************************************************)
(* Encoder and container assembly.                                         *)
(***************************************************************************)
\* tuple(chain.from_iterable(map(lambda i: prefix_table[i], s)))
RECURSIVE encode(_, _)
encode(s, prefix_table) ==
  IF Len(s) = 0 THEN <<>>
  ELSE DictGet(prefix_table, Head(s)) \o encode(Tail(s), prefix_table)

\* one record: the symbol, the path length, the path padded to PathBits bits
record_bytes(i, prefix) ==
  <<i, Len(prefix)>> \o bits_to_bytes(prefix \o ZeroPad(PathBits - Len(prefix)))

\* the records of the entries lo..hi of the table, in order
RECURSIVE table_bytes(_, _, _)
table_bytes(prefix_table, lo, hi) ==
  IF lo > hi THEN <<>>
  ELSE IF lo = hi THEN record_bytes(prefix_table[lo][1], prefix_table[lo][2])
  ELSE LET mid == (lo + hi) \div 2
       IN  table_bytes(prefix_table, lo, mid) \o table_bytes(prefix_table, mid + 1, hi)

prefix_table_to_bytes(prefix_table) == table_bytes(prefix_table, 1, Len(prefix_table))

\* num_data_bits.to_bytes(8) + num_prefixes.to_bytes(8) + prefix_bytes + data_bytes
assemble(s, prefix_table) ==
  LET data_bits == encode(s, prefix_table)
      data_bytes == bits_to_bytes(data_bits)
      num_data_bits == Len(data_bits)
      prefix_bytes == prefix_table_to_bytes(prefix_table)
      num_prefixes == Len(prefix_table)
  IN  to_bytes(num_data_bits, FieldLen) \o to_bytes(num_prefixes, FieldLen)
        \o prefix_bytes \o data_bytes

\* compress(s) for an input with two or more distinct bytes
compress(s) == assemble(s, build_optimal_prefix_table(Counter(s)))

(***************************************************************************)
(* Container parsing and prefix table recovery.                            *)
(***************************************************************************)
\* for data, pathlen, *path in batched(prefix_bytes, 10), over the batches
\* lo..hi in order: <<ok, table>>; a last batch of one byte cannot be
\* unpacked (ValueError)
RECURSIVE recover_batches(_, _, _, _)
recover_batches(d, prefix_bytes, lo, hi) ==
  IF lo > hi THEN <<TRUE, d>>
  ELSE IF lo = hi
  THEN LET rec == PySlice(prefix_bytes, RecordLen * (lo - 1), RecordLen * lo)
       IN  IF Len(rec) < 2 THEN <<FALSE, d>>
           ELSE <<TRUE, DictSet(d, rec[1], PySlice(bytes_to_bits(PySliceFrom(rec, 2)), 0, rec[2]))>>
  ELSE LET mid == (lo + hi) \div 2
           left == recover_batches(d, prefix_bytes, lo, mid)
       IN  IF left[1] THEN recover_batches(left[2], prefix_bytes, mid + 1, hi) ELSE left

recover_table(d, prefix_bytes) ==
  recover_batches(d, prefix_bytes, 1, (Len(prefix_bytes) + RecordLen - 1) \div RecordLen)

(***************************************************************************)
(* Prefix trie.  A PrefixTree is None, an int or a pair (l, r).  The trie  *)
(* is held as the set of its ints, each with its address: the bits on the  *)
(* way down from the root, 0 for l and 1 for r.  The node at an address is *)
(*   an int   when the set has an element with that address,               *)
(*   a pair   when it is the root or a proper prefix of such an address,   *)
(*   None     otherwise.                                                   *)
(* The root is (None, None) at first and add never makes it an int.        *)
(* Unreachable stands for the ValueError("unreachable") of add.            *)
(***************************************************************************)
IsPrefixOf(a, b) == Len(a) <= Len(b) /\ \A j \in 1..Len(a) : a[j] = b[j]

IsInt(tree, at) == \E e \in tree : e[1] = at

IsPair(tree, at) == at = <<>> \/ \E e \in tree : Len(at) < Len(e[1]) /\ IsPrefixOf(at, e[1])

IntAt(tree, at) == (CHOOSE e \in tree : e[1] = at)[2]

Unreachable == {<<<<>>, 256>>}

IsUnreachable(t) == t = Unreachable

\* add(root, path, data), the walk down from the root along path:
\*   case (l, r), (bit, *rest)   a pair and a bit left: the walk goes on;
\*   case None, ...              nothing there: the rest of the path is
\*                               made and data is put at its end;
\*   case _                      an int is met (at a prefix of path, or at
\*                               path itself), or path ends on a pair
add(root, path, data) ==
  IF (\E e \in root : IsPrefixOf(e[1], path)) \/ IsPair(root, path)
  THEN Unreachable
  ELSE root \cup {<<path, data>>}

\* root = (None, None); for data, prefix in prefix_table.items(): root = add(...),
\* over the entries lo..hi of the table, in order
RECURSIVE add_all(_, _, _, _)
add_all(root, prefix_table, lo, hi) ==
  IF lo > hi THEN root
  ELSE IF lo = hi THEN add(root, prefix_table[lo][2], prefix_table[lo][1])
  ELSE LET mid == (lo + hi) \div 2
           left == add_all(root, prefix_table, lo, mid)
       IN  IF IsUnreachable(left) THEN left ELSE add_all(left, prefix_table, mid + 1, hi)

build_prefix_tree(prefix_table) == add_all({}, prefix_table, 1, Len(prefix_table))

\* data_bits = bytes_to_bits(data_bytes)[:num_data_bits]
payload_bits(data_bytes, n) == PySlice(bytes_to_bits(data_bytes), 0, n)

(***************************************************************************)
(* State.                                                                  *)
(***************************************************************************)
VARIABLES
  pc,            \* position in compress / decompress
  s,             \* the input buffer of compress
  freqs,         \* the frequency map
  pq,            \* the priority queue of build_huffman_tree
  last,          \* the last merge: <<l, r, n, pq before it>>, or <<>>
  prefix_table,  \* the table derived from the tree
  prefix_bytes,  \* the serialized table
  container,     \* the result of compress, the argument of decompress
  err,           \* the exception raised, or NoError
  num_data_bits, \* decompress: the first header field
  data_bytes,    \* decompress: the payload segment
  dec_table,     \* decompress: the recovered prefix table
  prefix_tree,   \* decompress: the trie, as the set of <<address, int>>
  data_bits,     \* decompress: the payload bits to walk
  node,          \* decode_data_bits: the address of the cursor
  pos,           \* decode_data_bits: bits taken from the iterator
  out            \* decode_data_bits: the bytes yielded

vars ==
  <<pc, s, freqs, pq, last, prefix_table, prefix_bytes, container, err, num_data_bits,
    data_bytes, dec_table, prefix_tree, data_bits, node, pos, out>>

NoError == ""
TooFewSymbols == "ValueError: must be more than one unique byte in input"
UnpackError == "ValueError: not enough values to unpack"
\* ValueError("unreachable"), raised by add and by decode_data_bits
AddUnreachableError == "ValueError: unreachable (add)"
DecodeUnreachableError == "ValueError: unreachable (decode_data_bits)"

compressVars == <<s, freqs, pq, last, prefix_table, prefix_bytes>>
decompressVars == <<num_data_bits, data_bytes, dec_table, prefix_tree, data_bits, node, pos, out>>

(***************************************************************************)
(* compress.                                                               *)
(***************************************************************************)
\* freqs = Counter(s); raise ValueError if len(freqs) < 2
CountFreqs ==
  /\ pc = "start"
  /\ freqs' = Counter(s)
  /\ IF too_few_symbols(freqs')
     THEN pc' = "failed" /\ err' = TooFewSymbols
     ELSE pc' = "heapify" /\ err' = err
  /\ UNCHANGED <<s, pq, last, prefix_table, prefix_bytes, container>>
  /\ UNCHANGED decompressVars

\* pq = [...]; heapq.heapify(pq)
Heapify ==
  /\ pc = "heapify"
  /\ pq' = heapify(InitPQ(freqs))
  /\ pc' = "merge"
  /\ UNCHANGED <<s, freqs, last, prefix_table, prefix_bytes, container, err>>
  /\ UNCHANGED decompressVars

\* one iteration of while len(pq) > 1
MergeStep ==
  /\ pc = "merge"
  /\ Len(pq) > 1
  /\ LET m == MergeOnce(pq)
     IN  /\ pq' = m[1]
         /\ last' = <<m[2], m[3], m[4], pq>>
  /\ UNCHANGED <<pc, s, freqs, prefix_table, prefix_bytes, container, err>>
  /\ UNCHANGED decompressVars

\* root = pq[0][1:]; table = build_table_from_huffman(root)
BuildTable ==
  /\ pc = "merge"
  /\ Len(pq) = 1
  /\ prefix_table' = build_table_from_huffman(RootOf(pq))
  /\ pc' = "encode"
  /\ UNCHANGED <<s, freqs, pq, last, prefix_bytes, container, err>>
  /\ UNCHANGED decompressVars

\* data_bits, data_bytes, prefix_bytes and the returned container
Assemble ==
  /\ pc = "encode"
  /\ prefix_bytes' = prefix_table_to_bytes(prefix_table)
  /\ container' = assemble(s, prefix_table)
  /\ pc' = "compressed"
  /\ UNCHANGED <<s, freqs, pq, last, prefix_table, err>>
  /\ UNCHANGED decompressVars

\* prefix_bytes = bytes(prefix_table_to_bytes(prefix_table)), on its own
SerializeTable ==
  /\ pc = "encode"
  /\ prefix_bytes' = prefix_table_to_bytes(prefix_table)
  /\ pc' = "serialized"
  /\ UNCHANGED <<s, freqs, pq, last, prefix_table, container, err>>
  /\ UNCHANGED decompressVars

(***************************************************************************)
(* decompress.                                                             *)
(***************************************************************************)
\* the segments of the buffer and the recovered prefix table
Parse ==
  /\ pc = "compressed"
  /\ LET num_prefixes == from_bytes(PySlice(container, FieldLen, 2 * FieldLen))
         start_of_prefix_seg == 2 * FieldLen
         end_of_prefix_seg == 2 * FieldLen + num_prefixes * RecordLen
         t == recover_table(<<>>, PySlice(container, start_of_prefix_seg, end_of_prefix_seg))
     IN  /\ num_data_bits' = from_bytes(PySlice(container, 0, FieldLen))
         /\ data_bytes' = PySliceFrom(container, end_of_prefix_seg)
         /\ dec_table' = t[2]
         /\ IF t[1]
            THEN pc' = "trie" /\ err' = err
            ELSE pc' = "failed" /\ err' = UnpackError
  /\ UNCHANGED compressVars
  /\ UNCHANGED <<container, prefix_tree, data_bits, node, pos, out>>

\* the trie, the payload bits cut to num_data_bits, the cursor at the root
BuildPrefixTree ==
  /\ pc = "trie"
  /\ LET t == build_prefix_tree(dec_table)
     IN  IF IsUnreachable(t)
         THEN /\ pc' = "failed"
              /\ err' = AddUnreachableError
              /\ UNCHANGED <<prefix_tree, data_bits, node>>
         ELSE /\ pc' = "decode"
              /\ err' = err
              /\ prefix_tree' = t
              /\ data_bits' = payload_bits(data_bytes, num_data_bits)
              /\ node' = <<>>
  /\ UNCHANGED compressVars
  /\ UNCHANGED <<container, num_data_bits, data_bytes, dec_table, pos, out>>

\* one iteration of the while True of decode_data_bits
DecodeStep ==
  /\ pc = "decode"
  /\ IF IsInt(prefix_tree, node)
     THEN \* case int(): yield node; node = prefix_tree
          /\ out' = Append(out, IntAt(prefix_tree, node))
          /\ node' = <<>>
          /\ UNCHANGED <<pc, err, pos>>
     ELSE IF IsPair(prefix_tree, node)
     THEN IF pos < Len(data_bits)
          THEN \* bit = next(bits); node = l if bit == 0 else r
               /\ node' = Append(node, data_bits[pos + 1])
               /\ pos' = pos + 1
               /\ UNCHANGED <<pc, err, out>>
          ELSE \* StopIteration: the generator ends, bytes(...) is returned
               /\ pc' = "decompressed"
               /\ UNCHANGED <<err, node, pos, out>>
     ELSE \* case _: raise ValueError("unreachable"); no bytes are returned
          /\ pc' = "failed"
          /\ err' = DecodeUnreachableError
          /\ out' = <<>>
          /\ UNCHANGED <<node, pos>>
  /\ UNCHANGED compressVars
  /\ UNCHANGED <<container, num_data_bits, data_bytes, dec_table, prefix_tree, data_bits>>

(***************************************************************************)
(* The table's way through the container, without the payload: the table   *)
(* segment decompress slices out of a container that compress assembled    *)
(* from prefix_bytes is its first num_prefixes * 10 bytes after the header, *)
(* whatever payload follows.                                               *)
(***************************************************************************)
\* num_prefixes, the prefix segment and the recovered table
RecoverTable ==
  /\ pc = "serialized"
  /\ LET num_prefixes == from_bytes(to_bytes(Len(prefix_table), FieldLen))
         t == recover_table(<<>>, PySlice(prefix_bytes, 0, num_prefixes * RecordLen))
     IN  /\ dec_table' = t[2]
         /\ IF t[1]
            THEN pc' = "recovered" /\ err' = err
            ELSE pc' = "failed" /\ err' = UnpackError
  /\ UNCHANGED compressVars
  /\ UNCHANGED <<container, num_data_bits, data_bytes, prefix_tree, data_bits, node, pos, out>>

\* prefix_tree = build_prefix_tree(prefix_table)
BuildPrefixTreeOnly ==
  /\ pc = "recovered"
  /\ LET t == build_prefix_tree(dec_table)
     IN  IF IsUnreachable(t)
         THEN pc' = "failed" /\ err' = AddUnreachableError /\ UNCHANGED prefix_tree
         ELSE pc' = "trie_built" /\ err' = err /\ prefix_tree' = t
  /\ UNCHANGED compressVars
  /\ UNCHANGED <<container, num_data_bits, data_bytes, dec_table, data_bits, node, pos, out>>

(***************************************************************************)
(* Spec: compress(s) for every buffer s of at most MaxLen bytes over the   *)
(* alphabet, followed by decompress of the container.                      *)
(***************************************************************************)
Symbols == {Alphabet[j] : j \in 1..Len(Alphabet)}

Buffers(maxlen) == UNION {[1..n -> Symbols] : n \in 0..maxlen}

Blank ==
  /\ pq = <<>>
  /\ last = <<>>
  /\ prefix_table = <<>>
  /\ prefix_bytes = <<>>
  /\ err = NoError
  /\ num_data_bits = 0
  /\ data_bytes = <<>>
  /\ dec_table = <<>>
  /\ prefix_tree = {}
  /\ data_bits = <<>>
  /\ node = <<>>
  /\ pos = 0
  /\ out = <<>>

Init ==
  /\ pc = "start"
  /\ s \in Buffers(MaxLen)
  /\ freqs = <<>>
  /\ container = <<>>
  /\ Blank

Next ==
  \/ CountFreqs
  \/ Heapify
  \/ MergeStep
  \/ BuildTable
  \/ Assemble
  \/ Parse
  \/ BuildPrefixTree
  \/ DecodeStep

Spec == Init /\ [][Next]_vars

(***************************************************************************)
(* Properties of compress followed by decompress.  They are stated over    *)
(* the state, so that they read the same for a buffer held in s and for a  *)
(* frequency map whose buffer is not held.                                 *)
(***************************************************************************)
Distinct(buf) == {buf[j] : j \in 1..Len(buf)}

SameBytes(a, b) == Len(a) = Len(b) /\ \A j \in 1..Len(a) : a[j] = b[j]

\* C1: for every buffer with at least 2 distinct byte values, decompress of
\* what compress made of it raises no error and returns exactly the buffer:
\* same length, same bytes, same order.
CX_C1_RoundTrip ==
  Len(freqs) >= 2 =>
    /\ err = NoError
    /\ pc # "failed"
    /\ pc = "decompressed" => SameBytes(out, s)

\* C2: compress raises the ValueError 'must be more than one unique byte in
\* input', and returns no container, exactly on the inputs with fewer than 2
\* distinct byte values.
Thm_C2_Rejection ==
  /\ (pc # "start" /\ Cardinality(Distinct(s)) < 2) =>
       (pc = "failed" /\ err = TooFewSymbols /\ container = <<>>)
  /\ Cardinality(Distinct(s)) >= 2 =>
       /\ err # TooFewSymbols
       /\ pc \notin {"start", "heapify", "merge", "encode"} => Len(container) > 0

\* a repetition of one byte has been rejected
Wit_C2_Rejection ==
  /\ pc = "failed"
  /\ err = TooFewSymbols
  /\ Len(s) = 3
  /\ Cardinality(Distinct(s)) = 1

\* the code length of every byte of the buffer, summed
RECURSIVE SumCodeLen(_, _)
SumCodeLen(buf, table) ==
  IF Len(buf) = 0 THEN 0
  ELSE Len(DictGet(table, Head(buf))) + SumCodeLen(Tail(buf), table)

\* the 8-byte big-endian field of a number below 2^31
BigEndian8(n) ==
  <<0, 0, 0, 0, (n \div 16777216) % 256, (n \div 65536) % 256, (n \div 256) % 256, n % 256>>

\* C4: in the container compress returns, the first 8-byte big-endian field
\* is the sum of the code lengths of the bytes of the input, the second is
\* the number of distinct byte values, and that many 10-byte records, one
\* per distinct byte, follow before the padded payload.
CX_C4_Header ==
  /\ Len(prefix_bytes) > 0 => Len(prefix_bytes) = 10 * Len(freqs)
  /\ Len(container) > 0 =>
       LET bits == SumCodeLen(s, prefix_table)
           n == Cardinality(Distinct(s))
       IN  /\ SameBytes(SubSeq(container, 1, 8), BigEndian8(bits))
           /\ SameBytes(SubSeq(container, 9, 16), BigEndian8(n))
           /\ Len(container) = 16 + 10 * n + ((bits + 7) \div 8)
           /\ {container[16 + 10 * (j - 1) + 1] : j \in 1..n} = Distinct(s)

\* C8: on what compress produced, decompress gets to the decoder walk; the
\* walk takes exactly the declared number of payload bits and no padding
\* bit, never stands on an absent child, and when the bits are exhausted its
\* cursor is at the root of the trie and it has emitted as many symbols as
\* the input has bytes.
CX_C8_DecoderTerminal ==
  /\ err \notin {UnpackError, AddUnreachableError, DecodeUnreachableError}
  /\ pc \in {"decode", "decompressed"} =>
       /\ num_data_bits = SumCodeLen(s, prefix_table)
       /\ Len(data_bits) = num_data_bits
       /\ pos <= num_data_bits
       /\ IsInt(prefix_tree, node) \/ IsPair(prefix_tree, node)
       /\ Len(out) <= Len(s)
  /\ pc = "decompressed" =>
       /\ pos = num_data_bits
       /\ node = <<>>
       /\ Len(out) = Len(s)

(***************************************************************************)
(* SpecFreq: build_optimal_prefix_table for every frequency map of 2 to    *)
(* MaxSyms symbols with counts of 1 to MaxFreq, in every key order.        *)
(***************************************************************************)
FreqSymbol(j) == 96 + j

FreqMaps ==
  UNION {{[j \in 1..n |-> <<FreqSymbol(j), PyInt(f[j])>>] : f \in [1..n -> 1..MaxFreq]}
           : n \in 2..MaxSyms}

InitFreq ==
  /\ pc = "heapify"
  /\ s = <<>>
  /\ freqs \in FreqMaps
  /\ container = <<>>
  /\ Blank

NextFreq ==
  \/ Heapify
  \/ MergeStep
  \/ BuildTable

SpecFreq == InitFreq /\ [][NextFreq]_vars


\* C5: the prefix table derived from the Huffman tree of a frequency map
\* with at least 2 symbols has exactly one code word per symbol of the map,
\* and no code word is a prefix of, or equal to, the code word of another
\* symbol.
Thm_C5_PrefixCode ==
  pc = "encode" =>
    /\ Len(prefix_table) = Len(freqs)
    /\ {prefix_table[j][1] : j \in 1..Len(prefix_table)} = {freqs[j][1] : j \in 1..Len(freqs)}
    /\ \A j, k \in 1..Len(prefix_table) :
         j # k => ~IsPrefixOf(prefix_table[j][2], prefix_table[k][2])

\* the table of a 4-symbol map with code words of 1, 2 and 3 bits
Wit_C5_PrefixCode ==
  /\ pc = "encode"
  /\ Len(freqs) = 4
  /\ Len(prefix_table) = 4
  /\ {Len(prefix_table[j][2]) : j \in 1..4} = {1, 2, 3}

(***************************************************************************)
(* Every prefix code of n symbols with code words of at most maxbits bits. *)
(* A binary word of k bits is held as <<k, v>>, v the number its bits      *)
(* spell; a code is first taken as the set of its words (the sequence of   *)
(* the words in the order by length, then by v), and then every way of     *)
(* giving its words to the n symbols is taken.                             *)
(***************************************************************************)
Words(maxbits) == {w \in (0..maxbits) \X (0..(2^maxbits - 1)) : w[2] < 2^(w[1])}

WordPrefix(a, b) == a[1] <= b[1] /\ b[2] \div 2^(b[1] - a[1]) = a[2]

WordBefore(a, b) == a[1] < b[1] \/ (a[1] = b[1] /\ a[2] < b[2])

RECURSIVE PrefixCodes(_, _)
PrefixCodes(n, maxbits) ==
  IF n = 0 THEN {<<>>}
  ELSE UNION {{Append(c, w) : w \in {v \in Words(maxbits) :
                                       \A j \in 1..Len(c) :
                                         /\ WordBefore(c[j], v)
                                         /\ ~WordPrefix(c[j], v)
                                         /\ ~WordPrefix(v, c[j])}}
                : c \in PrefixCodes(n - 1, maxbits)}

Perms(n) == {p \in [1..n -> 1..n] : \A a, b \in 1..n : a # b => p[a] # p[b]}

\* the code lengths of the symbols 1..n under each of these prefix codes
CodeLengths == [n \in 2..MaxSyms |->
                  LET sorted == {[j \in 1..n |-> c[j][1]] : c \in PrefixCodes(n, MaxSyms - 1)}
                  IN  {[j \in 1..n |-> l[p[j]]] : l \in sorted, p \in Perms(n)}]

RECURSIVE WeightedLength(_, _, _)
WeightedLength(fs, lens, j) ==
  IF j = 0 THEN 0 ELSE fs[j][2][2] * lens[j] + WeightedLength(fs, lens, j - 1)

\* C6: the total encoded length (frequency times code length, summed over
\* the symbols) of the table built from a frequency map is no larger than
\* that of any prefix code over the same symbols.
Thm_C6_Optimal ==
  pc = "encode" =>
    LET n == Len(freqs)
        mine == [j \in 1..n |-> Len(DictGet(prefix_table, freqs[j][1]))]
    IN  \A lens \in CodeLengths[n] :
          WeightedLength(freqs, mine, n) <= WeightedLength(freqs, lens, n)

\* a table for unequal counts, where the balanced 2-bit code is worse
Wit_C6_Optimal ==
  /\ pc = "encode"
  /\ Len(freqs) = 4
  /\ LET mine == [j \in 1..4 |-> Len(DictGet(prefix_table, freqs[j][1]))]
     IN  WeightedLength(freqs, mine, 4) < WeightedLength(freqs, <<2, 2, 2, 2>>, 4)

\* C9: a merge step removes the two entries with the smallest (frequency,
\* index) keys and pushes one parent keyed (sum of the frequencies, smaller
\* index); the child with the smaller frequency, or on equal frequencies the
\* smaller index, is the parent's first child, the other its second.
Thm_C9_MergeStep ==
  Len(last) > 0 =>
    LET l == last[1]
        r == last[2]
        n == last[3]
        prev == last[4]
        small == IF KeyLess(l[1], r[1]) THEN l ELSE r
        large == IF KeyLess(l[1], r[1]) THEN r ELSE l
    IN  /\ \E a, b \in 1..Len(prev) :
             /\ a # b
             /\ prev[a] = l
             /\ prev[b] = r
             /\ \A c \in 1..Len(prev) \ {a, b} :
                  KeyLess(l[1], prev[c][1]) /\ KeyLess(r[1], prev[c][1])
             /\ Len(pq) = Len(prev) - 1
             /\ \A c \in 1..Len(prev) \ {a, b} : \E d \in 1..Len(pq) : pq[d] = prev[c]
        /\ \E d \in 1..Len(pq) : pq[d] = n
        /\ n[1][1] = <<0, l[1][1][2] + r[1][1][2]>>
        /\ n[1][2] = Min(l[1][2], r[1][2])
        /\ Len(n) = 3
        /\ n[2] = Tail(small)
        /\ n[3] = Tail(large)

\* a merge of two entries of equal frequency, the first popped a parent
Wit_C9_MergeStep ==
  /\ Len(last) > 0
  /\ last[1][1][1] = last[2][1][1]
  /\ Len(last[1]) = 3
  /\ Len(last[2]) = 2
  /\ last[3][2] = Tail(last[1])

\* C10: in every state of the tree construction the entries of the priority
\* queue have pairwise distinct (frequency, index) keys, so that their order
\* is decided by the keys.
Thm_C10_DistinctKeys ==
  /\ \A j, k \in 1..Len(pq) : j < k => (pq[j][1] # pq[k][1] /\ KeyLess(pq[j][1], pq[k][1]))
  /\ Len(last) > 0 => last[1][1] # last[2][1]

\* a parent and a symbol of equal frequency are in the queue together
Wit_C10_DistinctKeys ==
  /\ pc = "merge"
  /\ \E j, k \in 1..Len(pq) :
       /\ Len(pq[j]) = 3
       /\ Len(pq[k]) = 2
       /\ pq[j][1][1] = pq[k][1][1]
       /\ pq[j][1][2] # pq[k][1][2]

(***************************************************************************)
(* SpecWide: the prefix table, its serialization and its recovery by       *)
(* decompress, for the frequency maps with Fibonacci counts 1, 1, 2, 3, 5, *)
(* ... of MaxWide - 3 to MaxWide symbols.  The tree of such a map with n   *)
(* symbols is a chain of depth n - 1: its longest code paths have 63 to 66 *)
(* bits.  A buffer with these counts has Fib(n + 2) - 1 bytes; it is not   *)
(* held in s, only its Counter is held in freqs.                           *)
(***************************************************************************)
RECURSIVE FibCounts(_)
FibCounts(n) ==
  IF n <= 2 THEN [j \in 1..n |-> PyInt(1)]
  ELSE LET p == FibCounts(n - 1) IN Append(p, IntAdd(p[n - 1], p[n - 2]))

FibMap(n) == LET c == FibCounts(n) IN [j \in 1..n |-> <<j - 1, c[j]>>]

InitWide ==
  /\ pc = "heapify"
  /\ s = <<>>
  /\ \E n \in (MaxWide - 3)..MaxWide : freqs = FibMap(n)
  /\ container = <<>>
  /\ Blank

NextWide ==
  \/ Heapify
  \/ MergeStep
  \/ BuildTable
  \/ SerializeTable
  \/ RecoverTable
  \/ BuildPrefixTreeOnly

SpecWide == InitWide /\ [][NextWide]_vars

LongestPath(table) ==
  CHOOSE m \in {Len(table[j][2]) : j \in 1..Len(table)} :
    \A j \in 1..Len(table) : Len(table[j][2]) <= m

\* C7: when some code path of the table is longer than 64 bits the table
\* serialization fails with an error and emits nothing; otherwise every
\* record it emits has exactly 10 bytes.
CX_C7_UnrepresentablePath ==
  pc = "serialized" =>
    IF LongestPath(prefix_table) > PathBits
    THEN err # NoError /\ Len(prefix_bytes) = 0
    ELSE Len(prefix_bytes) = RecordLen * Len(prefix_table)

(***************************************************************************)
(* SpecDec: decompress of every prefix of the container of every buffer of *)
(* at most MaxDecLen bytes with two or more distinct bytes.                *)
(***************************************************************************)
DecInputs == {b \in Buffers(MaxDecLen) : Cardinality({b[j] : j \in 1..Len(b)}) >= 2}

InitDec ==
  /\ pc = "compressed"
  /\ s \in DecInputs
  /\ freqs = <<>>
  /\ \E k \in 0..Len(compress(s)) : container = SubSeq(compress(s), 1, k)
  /\ Blank

NextDec ==
  \/ Parse
  \/ BuildPrefixTree
  \/ DecodeStep

SpecDec == InitDec /\ [][NextDec]_vars

\* the buffer is cut short of its header, of the table its header declares,
\* or of the payload bits its header declares
Truncated(c) ==
  \/ Len(c) < 2 * FieldLen
  \/ LET bits == from_bytes(SubSeq(c, 1, FieldLen))
         n == from_bytes(SubSeq(c, FieldLen + 1, 2 * FieldLen))
     IN  \/ Len(c) < 2 * FieldLen + RecordLen * n
         \/ 8 * (Len(c) - 2 * FieldLen - RecordLen * n) < bits

\* C3: decompress of a buffer that is shorter than its header, than the
\* table or than the payload bits its header declares ends with an error
\* and returns nothing; it never returns a result for such a buffer.
CX_C3_MalformedContainer ==
  (Truncated(container) /\ pc \notin {"compressed", "trie", "decode"}) =>
    (pc = "failed" /\ err # NoError /\ Len(out) = 0)
=============================================================================
